---------------------------- MODULE Spec2Model ----------------------------
(***************************************************************************)
(* A model of the calendar viewer (src/src/app/page.tsx): the ICS parser,  *)
(* the date handling of the month view and of the CSV export, and the      *)
(* component's state with its event handlers; and of the route handlers    *)
(* (src/unnamed/part_000, src/unnamed/part_001,                            *)
(* src/src/app/api/google-callback/route.ts).                              *)
(*                                                                         *)
(* Text is a sequence of atoms.  An atom is a single character, or one of  *)
(* the keywords the regular expressions of parseICS look for, kept whole:  *)
(* "BEGIN:VEVENT", "END:VEVENT", "SUMMARY:", "DESCRIPTION:", "LOCATION:",  *)
(* "DTSTART", "DTEND", ";VALUE=DATE".  A regular expression is modelled by *)
(* the leftmost match it finds in the atom sequence.  The values that the  *)
(* code slices by character offset (date tokens) hold single characters     *)
(* only, so an offset in the JavaScript string is an index in the sequence. *)
(***************************************************************************)
EXTENDS Integers, Sequences, FiniteSets, TLC

VARIABLES
    events,             \* useState<Event[]>([])
    url,                \* useState("")
    loading,            \* useState(false)
    error,              \* useState("")
    showExportModal,    \* useState(false)
    exportStartDate,    \* useState("")
    exportEndDate,      \* useState("")
    currentMonthIndex,  \* useState<number>(0)
    mounted,            \* whether the component's mount effect has run
    cookie,             \* the calendar_url cookie of document.cookie
    pending,            \* the imports suspended at their await, in start order
    content,            \* history: the texts handed to parseICS, last one first
    download,           \* the file handed to the browser by the last export
    tz,                 \* the browser's offset from UTC, in minutes east
    today,              \* the local year and month of new Date()
    overtaken,          \* history: whether an import begun after the last
                        \* completed one had completed before it
    request,            \* the request a route handler is answering
    pc,                 \* the route handler's position
    upstream,           \* the requests the route handler has sent, in order
    response            \* the route handler's answer, once it has returned

\* the state of the route handlers (src/unnamed, src/src/app/api)
server == <<request, pc, upstream, response>>

\* the state of the page component
component == <<events, url, loading, error, showExportModal, exportStartDate,
               exportEndDate, currentMonthIndex, mounted, cookie, pending,
               content, download, tz, today, overtaken>>

vars == <<component, server>>

-----------------------------------------------------------------------------
(* Bounds of the model. *)

\* the longest body (property lines) of a block of a generated document
MaxProps == 2
\* the most segments (blocks, stray lines) of a generated document
MaxSegments == 3
\* the most imports that are awaiting their fetch or file read at once
MaxPending == 2

-----------------------------------------------------------------------------
(* JavaScript strings. *)

\* String.prototype.slice(a, b) for 0 <= a <= b: the characters at offsets
\* a .. b-1 that exist.
Slice(s, a, b) ==
    IF a >= Len(s) THEN <<>>
    ELSE SubSeq(s, a + 1, IF b > Len(s) THEN Len(s) ELSE b)

\* what "." of a regular expression does not match
IsLineTerminator(a) == a \in {"\n", "\r"}

\* the least element of a non-empty set of numbers
Least(S) == CHOOSE x \in S : \A y \in S : x <= y

\* the k-th element of a set of numbers, ascending
Kth(S, k) == CHOOSE x \in S : Cardinality({y \in S : y < x}) = k - 1

\* (.*) from index i on: the longest run of atoms that are not line terminators
RestOfLine(s, i) ==
    LET stops == {j \in i..Len(s) : IsLineTerminator(s[j])}
    IN  SubSeq(s, i, IF stops = {} THEN Len(s) ELSE Least(stops) - 1)

\* the index of the first atom equal to a at or after index i, 0 when none
IndexOf(s, a, i) ==
    LET hits == {j \in i..Len(s) : s[j] = a}
    IN  IF hits = {} THEN 0 ELSE Least(hits)

\* the pieces of a text between the indices of a set, in order
SplitAt(text, seps) ==
    LET n == Cardinality(seps)
    IN  [k \in 1..(n + 1) |->
            SubSeq(text, IF k = 1 THEN 1 ELSE Kth(seps, k - 1) + 1,
                         IF k = n + 1 THEN Len(text) ELSE Kth(seps, k) - 1)]


\* s without its element at index k
RemoveAt(s, k) == SubSeq(s, 1, k - 1) \o SubSeq(s, k + 1, Len(s))

-----------------------------------------------------------------------------
(* parseICS. *)

\* An optional value (description?: string) is <<>> when unset and <<v>> when
\* set to v; the result of String.prototype.match is <<>> for null and
\* <<capture>> for a match, capture being group 1.

\* what a greedy ([\s\S]*) would give: the last END:VEVENT after index i
GreedyEnd(text, i) ==
    LET ends == {j \in (i + 1)..Len(text) : text[j] = "END:VEVENT"}
    IN  IF ends = {} THEN 0 ELSE CHOOSE j \in ends : \A k \in ends : k <= j

\* the index of the END:VEVENT that closes the match beginning at index i:
\* ([\s\S]*?) is lazy, so it is the first one after i (0 when there is none)
LazyEnd(text, i) == IndexOf(text, "END:VEVENT", i + 1)

\* content.matchAll(/BEGIN:VEVENT([\s\S]*?)END:VEVENT/g) from index p on:
\* group 1 of each match, the matches being leftmost and not overlapping
RECURSIVE eventRegex(_, _)
eventRegex(text, p) ==
    LET i == IndexOf(text, "BEGIN:VEVENT", p)
        j == IF i = 0 THEN 0 ELSE LazyEnd(text, i)
    IN  IF i = 0 \/ j = 0 THEN <<>>
        ELSE <<SubSeq(text, i + 1, j - 1)>> \o eventRegex(text, j + 1)

\* eventContent.match(/NAME(.*)/) for a keyword NAME that holds its colon:
\* the keyword may stand anywhere in eventContent, not only at a line start
FieldMatch(eventContent, name) ==
    LET i == IndexOf(eventContent, name, 1)
    IN  IF i = 0 THEN <<>> ELSE <<RestOfLine(eventContent, i + 1)>>

summaryMatch(eventContent) == FieldMatch(eventContent, "SUMMARY:")
descMatch(eventContent) == FieldMatch(eventContent, "DESCRIPTION:")
locMatch(eventContent) == FieldMatch(eventContent, "LOCATION:")

\* eventContent.match(/NAME(?:;VALUE=DATE)?:(.*)/) from index i on
RECURSIVE DateMatch(_, _, _)
DateMatch(eventContent, name, i) ==
    LET at(k) == IF k <= Len(eventContent) THEN eventContent[k] ELSE ""
    IN  IF i > Len(eventContent) THEN <<>>
        ELSE IF at(i) = name /\ at(i + 1) = ";VALUE=DATE" /\ at(i + 2) = ":"
             THEN <<RestOfLine(eventContent, i + 3)>>
        ELSE IF at(i) = name /\ at(i + 1) = ":"
             THEN <<RestOfLine(eventContent, i + 2)>>
        ELSE DateMatch(eventContent, name, i + 1)

startMatch(eventContent) == DateMatch(eventContent, "DTSTART", 1)
endMatch(eventContent) == DateMatch(eventContent, "DTEND", 1)

\* the date part both branches write: YYYY-MM-DD
DatePart(dateStr) ==
    Slice(dateStr, 0, 4) \o <<"-">> \o Slice(dateStr, 4, 6) \o <<"-">>
        \o Slice(dateStr, 6, 8)

\* a slip a date formatter can make: the time read from offsets 8 and 10,
\* the literal T not skipped
StartNoSkipT(dateStr) ==
    IF Len(dateStr) = 8 THEN DatePart(dateStr)
    ELSE DatePart(dateStr) \o <<" ">> \o Slice(dateStr, 8, 10) \o <<":">>
             \o Slice(dateStr, 10, 12)

\* event.start of a DTSTART value (YYYYMMDD or YYYYMMDDTHHmmssZ)
formatStart(dateStr) ==
    IF Len(dateStr) = 8 THEN DatePart(dateStr)
    ELSE DatePart(dateStr) \o <<" ">> \o Slice(dateStr, 9, 11) \o <<":">>
             \o Slice(dateStr, 11, 13)

\* event.end of a DTEND value: the same code, written out a second time
formatEnd(dateStr) ==
    IF Len(dateStr) = 8 THEN DatePart(dateStr)
    ELSE DatePart(dateStr) \o <<" ">> \o Slice(dateStr, 9, 11) \o <<":">>
             \o Slice(dateStr, 11, 13)

\* the Event built from group 1 of one match
BuildEvent(eventContent) ==
    [summary     |-> IF summaryMatch(eventContent) = <<>> THEN <<>>
                     ELSE summaryMatch(eventContent)[1],
     start       |-> IF startMatch(eventContent) = <<>> THEN <<>>
                     ELSE formatStart(startMatch(eventContent)[1]),
     end         |-> IF endMatch(eventContent) = <<>> THEN <<>>
                     ELSE formatEnd(endMatch(eventContent)[1]),
     description |-> descMatch(eventContent),
     location    |-> locMatch(eventContent)]

parseICS(text) ==
    LET matches == eventRegex(text, 1)
    IN  [i \in 1..Len(matches) |-> BuildEvent(matches[i])]

-----------------------------------------------------------------------------
(* The calendar texts the model imports. *)

BeginLine == <<"BEGIN:VEVENT">>
EndLine == <<"END:VEVENT">>

\* the text of a sequence of lines, each ended by a newline
RECURSIVE Join(_)
Join(lines) ==
    IF lines = <<>> THEN <<>>
    ELSE Head(lines) \o <<"\n">> \o Join(Tail(lines))

\* the sequences over S of length 0 .. n
SeqsUpTo(S, n) == UNION {[1..k -> S] : k \in 0..n}

\* the lines of consecutive segments, a segment being a sequence of lines
RECURSIVE Flatten(_)
Flatten(segs) ==
    IF segs = <<>> THEN <<>> ELSE Head(segs) \o Flatten(Tail(segs))

\* a VEVENT block with the given property lines
Block(body) == <<BeginLine>> \o body \o <<EndLine>>

Token8 == <<"2", "0", "2", "4", "0", "3", "1", "5">>
Token8b == <<"2", "0", "2", "4", "0", "3", "1", "6">>
TokenT == <<"2", "0", "2", "4", "0", "3", "1", "5", "T",
            "1", "4", "3", "0", "0", "0">>
TokenTZ == TokenT \o <<"Z">>
TokenTZb == <<"2", "0", "2", "4", "0", "3", "1", "5", "T",
              "1", "5", "4", "5", "0", "0", "Z">>

\* the property lines of the generated blocks
PropLines ==
    { <<"SUMMARY:", "a">>,
      <<"DESCRIPTION:", "d">>,
      <<"DESCRIPTION:", "a", "t", " ", "LOCATION:", "r">>,
      <<"LOCATION:", "h">>,
      <<"DTSTART", ":">> \o Token8,
      <<"DTSTART", ";VALUE=DATE", ":">> \o Token8,
      <<"DTSTART", ":">> \o TokenT,
      <<"DTSTART", ":">> \o TokenTZ,
      <<"DTEND", ";VALUE=DATE", ":">> \o Token8b,
      <<"DTEND", ":">> \o TokenTZb }

\* one block each, with every body of up to MaxProps property lines
FieldDocs == {Join(Block(b)) : b \in SeqsUpTo(PropLines, MaxProps)}

\* the segments of the documents that vary the block structure: lines that
\* belong to no block, well-formed blocks, and blocks that lack END:VEVENT
Segments ==
    { << <<"X">> >>,
      << <<"SUMMARY:", "z">> >>,
      Block(<<>>),
      Block(<< <<"SUMMARY:", "a">> >>),
      Block(<< <<"SUMMARY:", "b">>, <<"LOCATION:", "h">> >>),
      <<BeginLine>>,
      <<BeginLine, <<"SUMMARY:", "m">> >> }

StructDocs == {Join(Flatten(segs)) : segs \in SeqsUpTo(Segments, MaxSegments)}

Docs == FieldDocs \cup StructDocs

-----------------------------------------------------------------------------
(* The line structure of a calendar text (RFC 5545), which the properties   *)
(* of the parser are stated against.                                         *)

\* the lines of a text, a newline ending each (a last line may lack it)
LinesOf(text) ==
    LET pieces == SplitAt(text, {i \in 1..Len(text) : text[i] = "\n"})
    IN  IF pieces[Len(pieces)] = <<>> THEN SubSeq(pieces, 1, Len(pieces) - 1)
        ELSE pieces

\* the bodies of the blocks of a sequence of lines, in order: a block runs
\* from a BEGIN:VEVENT line to the next END:VEVENT line with no BEGIN:VEVENT
\* line between them; a BEGIN:VEVENT line without its END:VEVENT opens nothing
RECURSIVE BlockBodies(_, _, _, _)
BlockBodies(lines, i, inside, cur) ==
    IF i > Len(lines) THEN <<>>
    ELSE IF lines[i] = BeginLine THEN BlockBodies(lines, i + 1, TRUE, <<>>)
    ELSE IF lines[i] = EndLine
         THEN (IF inside THEN <<cur>> ELSE <<>>)
                  \o BlockBodies(lines, i + 1, FALSE, <<>>)
    ELSE BlockBodies(lines, i + 1, inside,
                     IF inside THEN Append(cur, lines[i]) ELSE cur)

BodiesOf(text) == BlockBodies(LinesOf(text), 1, FALSE, <<>>)

\* the BEGIN:VEVENT lines that no END:VEVENT line closes before the next
\* BEGIN:VEVENT line or the end of the text
UnclosedBegins(lines) ==
    {i \in 1..Len(lines) :
        /\ lines[i] = BeginLine
        /\ \A j \in (i + 1)..Len(lines) :
              lines[j] = EndLine =>
                  \E k \in (i + 1)..(j - 1) : lines[k] = BeginLine}

\* the END:VEVENT lines that close no block
StrayEnds(lines) ==
    {j \in 1..Len(lines) :
        /\ lines[j] = EndLine
        /\ \A i \in 1..(j - 1) :
              lines[i] = BeginLine =>
                  \E k \in (i + 1)..(j - 1) : lines[k] = EndLine}

\* the markers stand on lines of their own only
MarkersOnOwnLines(lines) ==
    \A i \in 1..Len(lines) :
        \/ lines[i] \in {BeginLine, EndLine}
        \/ \A k \in 1..Len(lines[i]) :
              lines[i][k] \notin {"BEGIN:VEVENT", "END:VEVENT"}

WellFormed(text) ==
    LET lines == LinesOf(text)
    IN  /\ MarkersOnOwnLines(lines)
        /\ UnclosedBegins(lines) = {}
        /\ StrayEnds(lines) = {}

\* the text between the markers of a block with the given body
Interior(body) == <<"\n">> \o Join(body)

-----------------------------------------------------------------------------
(* JavaScript Date.  A Date is [valid, t]: t is its time value in minutes   *)
(* since 1970-01-01T00:00Z, and valid is FALSE for an Invalid Date (NaN).   *)
(* Local time is UTC plus tz minutes.                                        *)

DigitChars == <<"0", "1", "2", "3", "4", "5", "6", "7", "8", "9">>

\* the value of each digit character
DigitOf == [c \in {DigitChars[i] : i \in 1..10} |->
               (CHOOSE i \in 1..10 : DigitChars[i] = c) - 1]

IsDigit(c) == c \in DOMAIN DigitOf

DigitVal(c) == DigitOf[c]

\* the number a sequence of digits writes
RECURSIVE ToInt(_)
ToInt(s) ==
    IF s = <<>> THEN 0
    ELSE 10 * ToInt(SubSeq(s, 1, Len(s) - 1)) + DigitVal(s[Len(s)])

\* String(n) for n >= 0
RECURSIVE NumStr(_)
NumStr(n) ==
    IF n < 10 THEN <<DigitChars[n + 1]>>
    ELSE NumStr(n \div 10) \o <<DigitChars[(n % 10) + 1]>>

\* String(n).padStart(2, "0")
Pad2(n) == IF Len(NumStr(n)) < 2 THEN <<"0">> \o NumStr(n) ELSE NumStr(n)

IsLeap(y) == (y % 4 = 0 /\ y % 100 # 0) \/ y % 400 = 0

DaysInMonth(y, m) ==
    IF m = 2 THEN (IF IsLeap(y) THEN 29 ELSE 28)
    ELSE IF m \in {4, 6, 9, 11} THEN 30 ELSE 31

\* the day number of a civil date, 1970-01-01 being day 0
DaysFromCivil(y, m, d) ==
    LET yy  == IF m <= 2 THEN y - 1 ELSE y
        era == yy \div 400
        yoe == yy - era * 400
        mp  == IF m > 2 THEN m - 3 ELSE m + 9
        doy == (153 * mp + 2) \div 5 + d - 1
        doe == yoe * 365 + yoe \div 4 - yoe \div 100 + doy
    IN  era * 146097 + doe - 719468

\* the civil date of a day number
CivilFromDays(z) ==
    LET zz  == z + 719468
        era == zz \div 146097
        doe == zz - era * 146097
        yoe == (doe - doe \div 1460 + doe \div 36524 - doe \div 146096) \div 365
        doy == doe - (365 * yoe + yoe \div 4 - yoe \div 100)
        mp  == (5 * doy + 2) \div 153
        d   == doy - (153 * mp + 2) \div 5 + 1
        m   == IF mp < 10 THEN mp + 3 ELSE mp - 9
        y   == yoe + era * 400 + (IF m <= 2 THEN 1 ELSE 0)
    IN  [year |-> y, month |-> m, day |-> d]

InvalidDate == [valid |-> FALSE, t |-> 0]

\* s begins YYYY-MM-DD, a date of the calendar
IsDateShape(s) ==
    /\ Len(s) >= 10
    /\ \A i \in {1, 2, 3, 4, 6, 7, 9, 10} : IsDigit(s[i])
    /\ s[5] = "-" /\ s[8] = "-"
    /\ ToInt(SubSeq(s, 6, 7)) \in 1..12
    /\ ToInt(SubSeq(s, 9, 10)) \in
           1..DaysInMonth(ToInt(SubSeq(s, 1, 4)), ToInt(SubSeq(s, 6, 7)))

\* s is YYYY-MM-DD HH:MM, a time of the day
IsDateTimeShape(s) ==
    /\ Len(s) = 16
    /\ IsDateShape(s)
    /\ s[11] = " " /\ s[14] = ":"
    /\ \A i \in {12, 13, 15, 16} : IsDigit(s[i])
    /\ ToInt(SubSeq(s, 12, 13)) < 24
    /\ ToInt(SubSeq(s, 15, 16)) < 60

DayNumberOf(s) ==
    DaysFromCivil(ToInt(SubSeq(s, 1, 4)), ToInt(SubSeq(s, 6, 7)),
                  ToInt(SubSeq(s, 9, 10)))

\* new Date(s) for the strings the component holds: the date-only form
\* YYYY-MM-DD is a UTC midnight (ECMAScript date-time string format), the form
\* YYYY-MM-DD HH:MM is read as local time (the engines' fallback parser, as in
\* V8 and SpiderMonkey), anything else here ("" and cut-off strings) is an
\* Invalid Date
NewDate(s) ==
    IF Len(s) = 10 /\ IsDateShape(s)
    THEN [valid |-> TRUE, t |-> DayNumberOf(s) * 1440]
    ELSE IF IsDateTimeShape(s)
    THEN [valid |-> TRUE,
          t |-> DayNumberOf(s) * 1440 + ToInt(SubSeq(s, 12, 13)) * 60
                    + ToInt(SubSeq(s, 15, 16)) - tz]
    ELSE InvalidDate

\* the local civil date and minute of the day of a valid Date
LocalCivil(date) == CivilFromDays((date.t + tz) \div 1440)
LocalMinutes(date) == (date.t + tz) % 1440

\* date >= other and date <= other of two Dates: false when either is NaN
DateGE(a, b) == a.valid /\ b.valid /\ a.t >= b.t
DateLE(a, b) == a.valid /\ b.valid /\ a.t <= b.t

\* `${date.getFullYear()}-${String(date.getMonth() + 1).padStart(2, "0")}`
MonthKeyOfDate(date) ==
    IF date.valid
    THEN NumStr(LocalCivil(date).year) \o <<"-">> \o Pad2(LocalCivil(date).month)
    ELSE <<"N", "a", "N", "-", "N", "a", "N">>

\* date.toLocaleString() in the en-US locale: M/D/YYYY, h:mm:ss AM
toLocaleString(date) ==
    IF ~date.valid THEN <<"Invalid Date">>
    ELSE LET c   == LocalCivil(date)
             h   == LocalMinutes(date) \div 60
             h12 == IF h % 12 = 0 THEN 12 ELSE h % 12
         IN  NumStr(c.month) \o <<"/">> \o NumStr(c.day) \o <<"/">>
                 \o NumStr(c.year) \o <<",", " ">> \o NumStr(h12) \o <<":">>
                 \o Pad2(LocalMinutes(date) % 60) \o <<":", "0", "0", " ">>
                 \o (IF h < 12 THEN <<"AM">> ELSE <<"PM">>)

\* date.toISOString().split("T")[0]: the UTC civil date, YYYY-MM-DD
ISODate(date) ==
    LET c == CivilFromDays(date.t \div 1440)
    IN  NumStr(c.year) \o <<"-">> \o Pad2(c.month) \o <<"-">> \o Pad2(c.day)

\* new Date(year, monthIndex, day): local midnight; day 0 is the last day of
\* the month before
LocalDate(year, monthIndex, day) ==
    [valid |-> TRUE,
     t |-> (DaysFromCivil(year, monthIndex + 1, 1) + day - 1) * 1440 - tz]

-----------------------------------------------------------------------------
(* The month view: grouping, the month shown, its paging buttons. *)

\* the UTF-16 code unit of a character of a month key
CharCode(c) ==
    IF c = "-" THEN 45
    ELSE IF IsDigit(c) THEN 48 + DigitVal(c)
    ELSE IF c = "N" THEN 78
    ELSE 97

\* a < b as Array.prototype.sort compares strings: by code units
RECURSIVE StrLess(_, _)
StrLess(a, b) ==
    IF b = <<>> THEN FALSE
    ELSE IF a = <<>> THEN TRUE
    ELSE IF Head(a) = Head(b) THEN StrLess(Tail(a), Tail(b))
    ELSE CharCode(Head(a)) < CharCode(Head(b))

\* the strings of a set, ascending
RECURSIVE SortStrings(_)
SortStrings(S) ==
    IF S = {} THEN <<>>
    ELSE LET least == CHOOSE x \in S : \A y \in S \ {x} : StrLess(x, y)
         IN  <<least>> \o SortStrings(S \ {least})

\* the monthKey the reducer computes for an event
monthKeyOf(event) == MonthKeyOfDate(NewDate(event.start))

\* events.reduce(...): every key met, mapped to its events in list order
groupedEvents(evs) ==
    [key \in {monthKeyOf(evs[i]) : i \in 1..Len(evs)} |->
        SelectSeq(evs, LAMBDA e : monthKeyOf(e) = key)]

\* Object.keys(groupedEvents).sort()
sortedMonths(evs) == SortStrings(DOMAIN groupedEvents(evs))

\* `${currentDate.getFullYear()}-${String(currentDate.getMonth() + 1)...}`
currentMonthKey == NumStr(today.year) \o <<"-">> \o Pad2(today.month)

\* the const currentMonthIndex of the render, which hides the state of the
\* same name: sortedMonths.findIndex(month => month === currentMonthKey),
\* from 0, and -1 when no bucket has today's key
foundMonthIndex(evs) ==
    LET months == sortedMonths(evs)
        hits   == {i \in 1..Len(months) : months[i] = currentMonthKey}
    IN  IF hits = {} THEN -1 ELSE (CHOOSE i \in hits : TRUE) - 1

\* a month view that read the state instead: sortedMonths[currentMonthIndex]
StateMonthIndex(evs) ==
    IF currentMonthIndex < Len(sortedMonths(evs)) THEN currentMonthIndex ELSE 0

\* the index, from 0, of the bucket the month view shows:
\* sortedMonths[currentMonthIndex >= 0 ? currentMonthIndex : 0]
shownMonthIndex(evs) ==
    IF foundMonthIndex(evs) >= 0 THEN foundMonthIndex(evs) ELSE 0

\* const monthKey and const monthEvents of the render
monthKey(evs) == sortedMonths(evs)[shownMonthIndex(evs) + 1]
monthEvents(evs) == groupedEvents(evs)[monthKey(evs)]

Max(a, b) == IF a >= b THEN a ELSE b
Min(a, b) == IF a <= b THEN a ELSE b

\* the calendar body.  Its year and month (from 0) are parsed from
\* currentMonthKey, the key of today's month: parseInt(...split("-")[0]) and
\* parseInt(...split("-")[1]) - 1
gridYear == ToInt(SubSeq(currentMonthKey, 1, IndexOf(currentMonthKey, "-", 1) - 1))
gridMonth ==
    ToInt(SubSeq(currentMonthKey, IndexOf(currentMonthKey, "-", 1) + 1,
                 Len(currentMonthKey))) - 1

\* firstDay.getDay(), Sunday being 0, and lastDay.getDate()
startingDay == (DaysFromCivil(gridYear, gridMonth + 1, 1) + 4) % 7
totalDays == DaysInMonth(gridYear, gridMonth + 1)

\* eventDate.getDate(): the local day of the month, NaN (here 0) when invalid
getDate(date) == IF date.valid THEN LocalCivil(date).day ELSE 0

\* monthEvents.filter(event => new Date(event.start).getDate() === day)
dayEvents(evs, day) ==
    SelectSeq(monthEvents(evs), LAMBDA e : getDate(NewDate(e.start)) = day)

\* the year-month whose days the calendar body lays out
gridKey == NumStr(gridYear) \o <<"-">> \o Pad2(gridMonth + 1)

\* the cells of the calendar body: startingDay empty ones (day 0), then one
\* for each day of the month, with the events of that day
days(evs) ==
    [i \in 1..(startingDay + totalDays) |->
        IF i <= startingDay
        THEN [day |-> 0, events |-> <<>>]
        ELSE [day |-> i - startingDay,
              events |-> dayEvents(evs, i - startingDay)]]

-----------------------------------------------------------------------------
(* The CSV export. *)

\* events.filter(...): eventDate >= startDate && eventDate <= endDate
InRange(event, from, to) ==
    /\ DateGE(NewDate(event.start), NewDate(from))
    /\ DateLE(NewDate(event.start), NewDate(to))

filteredEvents(evs, from, to) ==
    SelectSeq(evs, LAMBDA e : InRange(e, from, to))

\* a quoting that leaves the field's own quotes single
KeepQuotes(field) == field

\* field.replace(/"/g, '""')
RECURSIVE DoubleQuotes(_)
DoubleQuotes(field) ==
    IF field = <<>> THEN <<>>
    ELSE (IF Head(field) = "\"" THEN <<"\"", "\"">> ELSE <<Head(field)>>)
             \o DoubleQuotes(Tail(field))

\* `"${field.replace(/"/g, '""')}"`
QuoteField(field) == <<"\"">> \o DoubleQuotes(field) \o <<"\"">>

\* event.location || "" of an optional value
OrEmpty(opt) == IF opt = <<>> THEN <<>> ELSE opt[1]

\* the five quoted fields of the row of an event
csvRow(event) ==
    << QuoteField(event.summary),
       QuoteField(toLocaleString(NewDate(event.start))),
       QuoteField(toLocaleString(NewDate(event.end))),
       QuoteField(OrEmpty(event.location)),
       QuoteField(OrEmpty(event.description)) >>

headers ==
    << <<"Summary">>, <<"Start Date">>, <<"End Date">>, <<"Location">>,
       <<"Description">> >>

\* Array.prototype.join(sep) of an array of strings
RECURSIVE JoinWith(_, _)
JoinWith(parts, sep) ==
    IF parts = <<>> THEN <<>>
    ELSE IF Len(parts) = 1 THEN parts[1]
    ELSE parts[1] \o <<sep>> \o JoinWith(Tail(parts), sep)

\* csvRows.map(row => row.join(",")).join("\n"), csvRows being the headers
\* and the row of each selected event
csvText(selected) ==
    LET csvRows == <<headers>> \o [i \in 1..Len(selected) |-> csvRow(selected[i])]
    IN  JoinWith([i \in 1..Len(csvRows) |-> JoinWith(csvRows[i], ",")], "\n")

\* the csvContent of the Export click
csvContent(evs, from, to) == csvText(filteredEvents(evs, from, to))

\* `calendar-events-${exportStartDate}-to-${exportEndDate}.csv`
downloadName(from, to) ==
    <<"calendar-events-">> \o from \o <<"-to-">> \o to \o <<".csv">>

-----------------------------------------------------------------------------
(* The environment of the component. *)

\* the browser's time zones: New York (winter), UTC, Zurich (summer)
TzOffsets == {-300, 0, 120}

\* the local year and month of the clock
February == [year |-> 2024, month |-> 2]
June == [year |-> 2024, month |-> 6]

\* what the user types into the URL field
Urls == {"", "https://a/cal.ics"}

\* what the user picks in the date inputs of the export dialog
ExportDates ==
    { <<"2", "0", "2", "4", "-", "0", "3", "-", "0", "1">>,
      <<"2", "0", "2", "4", "-", "0", "3", "-", "3", "1">> }

\* the messages of a failed fetch: the one the fetch-ics route answers, and
\* the one of a fetch that throws
FetchErrors == {"Failed to fetch ICS file", "Failed to fetch"}

Line(name, token) == <<name, ":">> \o token

DayToken(m1, m2, d1, d2) == <<"2", "0", "2", "4", m1, m2, d1, d2>>
TimeToken(m1, m2, d1, d2, h1, h2) ==
    DayToken(m1, m2, d1, d2) \o <<"T", h1, h2, "3", "0", "0", "0", "Z">>

\* three events in three months, not in the order of their months
DocThreeMonths ==
    Join(Block(<< <<"SUMMARY:", "c">>, Line("DTSTART", DayToken("0", "3", "1", "0")) >>)
         \o Block(<< <<"SUMMARY:", "a">>, Line("DTSTART", DayToken("0", "1", "0", "5")) >>)
         \o Block(<< <<"SUMMARY:", "b">>,
                     Line("DTSTART", TimeToken("0", "2", "2", "0", "0", "9")),
                     Line("DTEND", TimeToken("0", "2", "2", "0", "1", "0")) >>))

\* the first and the last day of March, as all-day dates and with a time
DocMarch ==
    Join(Block(<< <<"SUMMARY:", "\"", "q", "\"">>,
                  <<"DTSTART", ";VALUE=DATE", ":">> \o DayToken("0", "3", "0", "1"),
                  <<"DTEND", ";VALUE=DATE", ":">> \o DayToken("0", "3", "0", "2") >>)
         \o Block(<< <<"SUMMARY:", "t">>, <<"LOCATION:", "h">>,
                     Line("DTSTART", TimeToken("0", "3", "0", "1", "1", "0")) >>)
         \o Block(<< <<"SUMMARY:", "e">>, <<"DESCRIPTION:", "d", ",", "\"">>,
                     Line("DTSTART", TimeToken("0", "3", "3", "1", "1", "4")) >>))

\* one event outside March, one without a start
DocApril ==
    Join(Block(<< <<"SUMMARY:", "x">>,
                  Line("DTSTART", DayToken("0", "4", "0", "1")) >>)
         \o Block(<< <<"SUMMARY:", "n">> >>))

\* the texts the component is given in the full model
UiDocs == {DocThreeMonths, DocMarch}

\* the texts of the export model
ExportDocs == {DocThreeMonths, DocMarch, DocApril}

-----------------------------------------------------------------------------
(* The component. *)

\* the state after construction, in an environment of the given time zones,
\* clocks and saved URLs
Start(zones, clocks, saved) ==
    /\ events = <<>>
    /\ url = ""
    /\ loading = FALSE
    /\ error = ""
    /\ showExportModal = FALSE
    /\ exportStartDate = <<>>
    /\ exportEndDate = <<>>
    /\ currentMonthIndex = 0
    /\ mounted = FALSE
    /\ cookie \in saved
    /\ pending = <<>>
    /\ content = <<>>
    /\ download = <<>>
    /\ tz \in zones
    /\ today \in clocks
    /\ overtaken = FALSE

\* no route handler is running
Idle ==
    /\ request = <<>>
    /\ pc = "idle"
    /\ upstream = <<>>
    /\ response = <<>>

Init == Start({-300, 0}, {February, June}, Urls) /\ Idle

\* an import by URL suspended at await fetch("/api/fetch-ics", ...); passed
\* is history: whether an import begun after this one has completed
UrlImport(urlToUse) ==
    [kind |-> "url", url |-> urlToUse, text |-> <<>>, passed |-> FALSE]

\* an import of a file suspended at await file.text()
FileImport(text) == [kind |-> "file", url |-> "", text |-> text, passed |-> FALSE]

\* the effect "Load saved URL from cookie on component mount": it runs after
\* the first render and again after every render that made a new
\* handleUrlImport, which useCallback does whenever url changed.  A run that
\* finds a saved URL calls setUrl(decodedUrl) and handleUrlImport(decodedUrl);
\* when that setUrl changes url, the effect runs once more.  The result is
\* the imports begun by a first run that finds the cookie savedUrl while the
\* render shows shownUrl.
savedUrlEffect(savedUrl, shownUrl) ==
    IF savedUrl = "" THEN <<>>
    ELSE IF savedUrl = shownUrl THEN <<UrlImport(savedUrl)>>
    ELSE <<UrlImport(savedUrl), UrlImport(savedUrl)>>

\* the first render and the effect's first run
Mount ==
    /\ ~mounted
    /\ mounted' = TRUE
    /\ LET begun == savedUrlEffect(cookie, url)
       IN  /\ Len(pending) + Len(begun) <= MaxPending
           /\ pending' = pending \o begun
           /\ url' = IF begun = <<>> THEN url ELSE cookie
           /\ loading' = IF begun = <<>> THEN loading ELSE TRUE
           /\ error' = IF begun = <<>> THEN error ELSE ""
    /\ UNCHANGED <<events, showExportModal, exportStartDate, exportEndDate,
                   currentMonthIndex, cookie, content, download, tz, today, overtaken, server>>

\* the user edits the URL field: setUrl(newUrl), the cookie is written, and
\* the render with the new url runs the effect above
handleUrlChange(newUrl) ==
    /\ mounted
    /\ newUrl # url
    /\ url' = newUrl
    /\ cookie' = newUrl
    /\ LET begun == savedUrlEffect(newUrl, newUrl)
       IN  /\ Len(pending) + Len(begun) <= MaxPending
           /\ pending' = pending \o begun
           /\ loading' = IF begun = <<>> THEN loading ELSE TRUE
           /\ error' = IF begun = <<>> THEN error ELSE ""
    /\ UNCHANGED <<events, showExportModal, exportStartDate, exportEndDate,
                   currentMonthIndex, mounted, content, download, tz, today, overtaken, server>>

\* handleUrlImport(urlToFetch) up to its await, "" standing for a call
\* without argument: urlToUse = urlToFetch || url; with no URL to use it
\* sets the error and returns, otherwise setLoading(true), setError("") and
\* the fetch of /api/fetch-ics is sent
handleUrlImport(urlToFetch) ==
    LET urlToUse == IF urlToFetch # "" THEN urlToFetch ELSE url
    IN  /\ IF urlToUse = ""
           THEN /\ error' = "Please enter a calendar URL"
                /\ UNCHANGED <<loading, pending>>
           ELSE /\ Len(pending) < MaxPending
                /\ loading' = TRUE
                /\ error' = ""
                /\ pending' = Append(pending, UrlImport(urlToUse))
        /\ UNCHANGED <<events, url, showExportModal, exportStartDate,
                       exportEndDate, currentMonthIndex, mounted, cookie,
                       content, download, tz, today, overtaken, server>>

\* a click on Import (disabled={!url || loading}): handleUrlImport()
ImportClick ==
    /\ mounted
    /\ url # "" /\ ~loading
    /\ handleUrlImport("")

\* handleUrlImport called as a function, by a caller that does not look at
\* url or loading first
CallUrlImport(urlToFetch) ==
    /\ mounted
    /\ handleUrlImport(urlToFetch)

\* handleDrop and handleFileUpload with a file of the given text, up to
\* their await (the two differ in setDragActive, which the model leaves out)
FileChosen(text) ==
    /\ mounted
    /\ Len(pending) < MaxPending
    /\ loading' = TRUE
    /\ error' = ""
    /\ pending' = Append(pending, FileImport(text))
    /\ UNCHANGED <<events, url, showExportModal, exportStartDate,
                   exportEndDate, currentMonthIndex, mounted, cookie, content,
                   download, tz, today, overtaken, server>>

handleDrop(text) == FileChosen(text)
handleFileUpload(text) == FileChosen(text)

\* a setEvents that kept the list it had and added the new events
MergeEvents(parsedEvents) == events \o parsedEvents

\* setEvents(parsedEvents): the value of events after it
SetEvents(parsedEvents) == parsedEvents

\* a handler that dropped the result of an import which a later-begun
\* import has overtaken
SucceedsUnlessStale(k, text) ==
    /\ events' = IF pending[k].passed THEN events ELSE SetEvents(parseICS(text))
    /\ content' = <<text>>
    /\ loading' = FALSE
    /\ overtaken' = pending[k].passed
    /\ pending' = RemoveAt([j \in 1..Len(pending) |->
                               IF j < k
                               THEN [pending[j] EXCEPT !.passed = TRUE]
                               ELSE pending[j]], k)
    /\ UNCHANGED <<url, error, showExportModal, exportStartDate,
                   exportEndDate, currentMonthIndex, mounted, cookie,
                   download, tz, today, server>>

\* the rest of an import whose await gave the text: parseICS, setEvents, and
\* setLoading(false) of the finally block
ImportSucceeds(k, text) ==
    /\ events' = SetEvents(parseICS(text))
    /\ content' = <<text>>
    /\ loading' = FALSE
    /\ overtaken' = pending[k].passed
    /\ pending' = RemoveAt([j \in 1..Len(pending) |->
                               IF j < k
                               THEN [pending[j] EXCEPT !.passed = TRUE]
                               ELSE pending[j]], k)
    /\ UNCHANGED <<url, error, showExportModal, exportStartDate,
                   exportEndDate, currentMonthIndex, mounted, cookie,
                   download, tz, today, server>>

\* a catch block that also dropped the events it had
FailsAndClears(k, message) ==
    /\ error' = message
    /\ loading' = FALSE
    /\ events' = <<>>
    /\ pending' = RemoveAt(pending, k)
    /\ UNCHANGED <<url, showExportModal, exportStartDate, exportEndDate,
                   currentMonthIndex, mounted, cookie, content, download, tz,
                   today, overtaken, server>>

\* the rest of an import whose try block threw: setError(message) of the
\* catch block and setLoading(false) of the finally block
ImportFails(k, message) ==
    /\ error' = message
    /\ loading' = FALSE
    /\ pending' = RemoveAt(pending, k)
    /\ UNCHANGED <<events, url, showExportModal, exportStartDate,
                   exportEndDate, currentMonthIndex, mounted, cookie, content,
                   download, tz, today, overtaken, server>>

\* the fetch of import k answers ok with { content: text }
FetchOk(k, text) ==
    /\ k \in 1..Len(pending)
    /\ pending[k].kind = "url"
    /\ ImportSucceeds(k, text)

\* the fetch of import k answers not ok (error.error || "Failed to fetch ICS
\* file") or throws (error.message)
FetchFails(k, message) ==
    /\ k \in 1..Len(pending)
    /\ pending[k].kind = "url"
    /\ ImportFails(k, message)

\* file.text() of import k gives the file's text
ReadDone(k) ==
    /\ k \in 1..Len(pending)
    /\ pending[k].kind = "file"
    /\ ImportSucceeds(k, pending[k].text)

\* file.text() of import k rejects
ReadFails(k) ==
    /\ k \in 1..Len(pending)
    /\ pending[k].kind = "file"
    /\ ImportFails(k, "Error parsing ICS file")

\* the buttons and the dialog below are rendered only with events.length > 0

\* a click on Clear: setEvents([])
ClearClick ==
    /\ mounted
    /\ Len(events) > 0
    /\ events' = <<>>
    /\ UNCHANGED <<url, loading, error, showExportModal, exportStartDate,
                   exportEndDate, currentMonthIndex, mounted, cookie, pending,
                   content, download, tz, today, overtaken, server>>

\* a click on Export CSV: setShowExportModal(true), and the effect "Set
\* default date range to current month when modal opens"
ExportCsvClick ==
    /\ mounted
    /\ Len(events) > 0
    /\ ~showExportModal
    /\ showExportModal' = TRUE
    /\ exportStartDate' = ISODate(LocalDate(today.year, today.month - 1, 1))
    /\ exportEndDate' = ISODate(LocalDate(today.year, today.month, 0))
    /\ UNCHANGED <<events, url, loading, error, currentMonthIndex, mounted,
                   cookie, pending, content, download, tz, today, overtaken, server>>

\* a click on the dialog's close button or on Cancel
CloseModalClick ==
    /\ mounted
    /\ Len(events) > 0
    /\ showExportModal
    /\ showExportModal' = FALSE
    /\ UNCHANGED <<events, url, loading, error, exportStartDate,
                   exportEndDate, currentMonthIndex, mounted, cookie, pending,
                   content, download, tz, today, overtaken, server>>

\* the date inputs of the dialog
setExportStartDate(value) ==
    /\ mounted
    /\ Len(events) > 0
    /\ showExportModal
    /\ value # exportStartDate
    /\ exportStartDate' = value
    /\ UNCHANGED <<events, url, loading, error, showExportModal,
                   exportEndDate, currentMonthIndex, mounted, cookie, pending,
                   content, download, tz, today, overtaken, server>>

setExportEndDate(value) ==
    /\ mounted
    /\ Len(events) > 0
    /\ showExportModal
    /\ value # exportEndDate
    /\ exportEndDate' = value
    /\ UNCHANGED <<events, url, loading, error, showExportModal,
                   exportStartDate, currentMonthIndex, mounted, cookie,
                   pending, content, download, tz, today, overtaken, server>>

\* a click on Export: the CSV of the events in the range is handed to the
\* browser as a download, and setShowExportModal(false)
ExportClick ==
    /\ mounted
    /\ Len(events) > 0
    /\ showExportModal
    /\ download' = <<[name |-> downloadName(exportStartDate, exportEndDate),
                      text |-> csvContent(events, exportStartDate, exportEndDate)]>>
    /\ showExportModal' = FALSE
    /\ UNCHANGED <<events, url, loading, error, exportStartDate,
                   exportEndDate, currentMonthIndex, mounted, cookie, pending,
                   content, tz, today, overtaken, server>>

\* a click on Previous Month (disabled when the render's index is 0):
\* setCurrentMonthIndex(prev => Math.max(0, prev - 1))
PreviousMonthClick ==
    /\ mounted
    /\ Len(events) > 0
    /\ foundMonthIndex(events) # 0
    /\ currentMonthIndex' = Max(0, currentMonthIndex - 1)
    /\ UNCHANGED <<events, url, loading, error, showExportModal,
                   exportStartDate, exportEndDate, mounted, cookie, pending,
                   content, download, tz, today, overtaken, server>>

\* a click on Next Month (disabled when the render's index is the last):
\* setCurrentMonthIndex(prev => Math.min(sortedMonths.length - 1, prev + 1))
NextMonthClick ==
    /\ mounted
    /\ Len(events) > 0
    /\ LET last == Len(sortedMonths(events)) - 1
       IN  /\ foundMonthIndex(events) # last
           /\ currentMonthIndex' = Min(last, currentMonthIndex + 1)
    /\ UNCHANGED <<events, url, loading, error, showExportModal,
                   exportStartDate, exportEndDate, mounted, cookie, pending,
                   content, download, tz, today, overtaken, server>>

-----------------------------------------------------------------------------
(* The route handlers.  A handler answers one request; it is suspended at *)
(* each await, and the world outside decides how the awaited call ends.   *)

\* a || b for optional strings: b when a is absent or empty
OrDefault(opt, default) == IF opt = <<>> \/ opt = <<"">> THEN default ELSE opt[1]

\* NextResponse.json(body, { status }) with an error, or with a payload
ErrorResponse(status, message) ==
    [status |-> status, error |-> <<message>>, body |-> <<>>, cookie |-> <<>>]
JsonResponse(payload) ==
    [status |-> 200, error |-> <<>>, body |-> <<payload>>, cookie |-> <<>>]

\* the handler is suspended at an await and nothing else changes
Suspend(at) ==
    /\ pc' = at
    /\ UNCHANGED <<request, response, component>>

\* the handler returns an answer
Return(answer) ==
    /\ response' = <<answer>>
    /\ pc' = "done"
    /\ UNCHANGED <<request, upstream, component>>

\* what an upstream server answers: response.ok, and the body, which
\* response.json() parses (<<>> when it is not JSON and the parse throws)
Replies ==
    { [ok |-> TRUE,  json |-> <<[error |-> <<>>, access_token |-> <<"ya29">>]>>],
      [ok |-> TRUE,  json |-> <<>>],
      [ok |-> FALSE, json |-> <<[error |-> <<"invalid_grant">>, access_token |-> <<>>]>>],
      [ok |-> FALSE, json |-> <<[error |-> <<>>, access_token |-> <<>>]>>],
      [ok |-> FALSE, json |-> <<>>] }

\* the last request sent gets its reply
Replied(reply) == [upstream EXCEPT ![Len(upstream)].reply = <<reply>>]
LastReply == upstream[Len(upstream)].reply[1]

\* the message of the error a rejected fetch throws, and of the SyntaxError
\* of response.json() on a body that is not JSON
FetchFailed == "fetch failed"
NotJson == "Unexpected token"

\* ---- GET of the Google events route (src/unnamed/part_001, lines 28-77)

\* the requests: the google_access_token cookie and the query parameters
EventsRequests ==
    [route : {"google-events"},
     token : {<<>>, <<"">>, <<"ya29">>},
     calendarId : {<<>>, <<"work">>},
     timeMin : {<<>>, <<"2024-03-01T00:00:00Z">>},
     timeMax : {<<>>, <<"2024-04-01T00:00:00Z">>}]

\* a handler that went to Google whatever the cookie store holds
EventsBeginUnchecked ==
    /\ request.route = "google-events" /\ pc = "start"
    /\ upstream' = Append(upstream,
           [to |-> "calendar/v3/calendars/events",
            calendarId |-> OrDefault(request.calendarId, "primary"),
            timeMin |-> OrDefault(request.timeMin, "now"),
            timeMax |-> OrDefault(request.timeMax, "now+30d"),
            bearer |-> request.token,
            reply |-> <<>>])
    /\ Suspend("fetch")

\* from the start to the first return or await: without the cookie 401,
\* with it the fetch of the calendar's events with Authorization: Bearer
EventsBegin ==
    /\ request.route = "google-events" /\ pc = "start"
    /\ IF request.token = <<>>
       THEN /\ Return(ErrorResponse(401, "Not authenticated"))
       ELSE /\ upstream' = Append(upstream,
                   [to |-> "calendar/v3/calendars/events",
                    calendarId |-> OrDefault(request.calendarId, "primary"),
                    timeMin |-> OrDefault(request.timeMin, "now"),
                    timeMax |-> OrDefault(request.timeMax, "now+30d"),
                    bearer |-> request.token,
                    reply |-> <<>>])
            /\ Suspend("fetch")

\* await fetch(...) resolves with Google's reply
EventsFetched(reply) ==
    /\ request.route = "google-events" /\ pc = "fetch"
    /\ upstream' = Replied(reply)
    /\ Suspend("json")

\* await fetch(...) rejects: catch, 500 with error.message
EventsFetchThrows ==
    /\ request.route = "google-events" /\ pc = "fetch"
    /\ Return(ErrorResponse(500, OrDefault(<<FetchFailed>>, "Failed to fetch events")))

\* await eventsResponse.json() and the rest: a body that is not JSON throws,
\* a reply that is not ok throws events.error || "Failed to fetch events",
\* both answered 500 by the catch; otherwise the events are the answer
EventsAnswer ==
    /\ request.route = "google-events" /\ pc = "json"
    /\ IF LastReply.json = <<>>
       THEN Return(ErrorResponse(500, OrDefault(<<NotJson>>, "Failed to fetch events")))
       ELSE IF ~LastReply.ok
       THEN Return(ErrorResponse(500,
                OrDefault(<<OrDefault(LastReply.json[1].error, "Failed to fetch events")>>,
                          "Failed to fetch events")))
       ELSE Return(JsonResponse(LastReply.json[1]))

\* ---- GET of the OAuth callback (src/src/app/api/google-callback/route.ts)

\* the requests: the code query parameter, the origin of request.url, and
\* whether NODE_ENV is "production"
CallbackRequests ==
    [route : {"google-callback"},
     code : {<<>>, <<"">>, <<"4/abc">>, <<"4/xyz">>},
     origin : {"http://localhost:3000", "https://cal.example"},
     production : BOOLEAN]

\* NextResponse.redirect(new URL(path, request.url)); the error, when there
\* is one, is the value of the path's error parameter
Redirect(path, err) ==
    [status |-> 307, origin |-> request.origin, path |-> path, error |-> err,
     cookie |-> <<>>]

\* response.cookies.set("google_access_token", value, {...})
WithTokenCookie(answer, value) ==
    [answer EXCEPT !.cookie =
        <<[name |-> "google_access_token", value |-> value, httpOnly |-> TRUE,
           secure |-> request.production, sameSite |-> "lax", maxAge |-> 3600]>>]

\* the catch block: redirect to /?error=<error.message>
CallbackCatch(message) == Return(Redirect("/", <<message>>))

\* from the start to the first return or await: without a code the redirect
\* to /?error=no_code, with one the POST to the token endpoint
CallbackBegin ==
    /\ request.route = "google-callback" /\ pc = "start"
    /\ IF request.code = <<>> \/ request.code = <<"">>
       THEN Return(Redirect("/", <<"no_code">>))
       ELSE /\ upstream' = Append(upstream,
                   [to |-> "oauth2.googleapis.com/token",
                    code |-> request.code,
                    bearer |-> <<>>,
                    reply |-> <<>>])
            /\ Suspend("token")

\* await fetch(token endpoint) resolves
CallbackTokenFetched(reply) ==
    /\ request.route = "google-callback" /\ pc = "token"
    /\ upstream' = Replied(reply)
    /\ Suspend("tokens")

\* a fetch of the handler rejects
CallbackFetchThrows ==
    /\ request.route = "google-callback" /\ pc \in {"token", "calendars"}
    /\ CallbackCatch(FetchFailed)

\* await tokenResponse.json(), the ok test, and the request for the
\* calendar list with Authorization: Bearer tokens.access_token
CallbackTokens ==
    /\ request.route = "google-callback" /\ pc = "tokens"
    /\ IF LastReply.json = <<>>
       THEN CallbackCatch(NotJson)
       ELSE IF ~LastReply.ok
       THEN CallbackCatch(OrDefault(LastReply.json[1].error,
                                    "Failed to exchange code for tokens"))
       ELSE /\ upstream' = Append(upstream,
                   [to |-> "calendar/v3/users/me/calendarList",
                    code |-> <<>>,
                    bearer |-> LastReply.json[1].access_token,
                    reply |-> <<>>])
            /\ Suspend("calendars")

\* await fetch(calendar list) resolves
CallbackCalendarsFetched(reply) ==
    /\ request.route = "google-callback" /\ pc = "calendars"
    /\ upstream' = Replied(reply)
    /\ Suspend("list")

\* a handler that set the cookie whatever the calendar list request gave
CallbackAnswerUnchecked ==
    /\ request.route = "google-callback" /\ pc = "list"
    /\ Return(WithTokenCookie(Redirect("/", <<>>),
                              upstream[1].reply[1].json[1].access_token))

\* await calendarsResponse.json(), the ok test, and the redirect to / with
\* the cookie google_access_token = tokens.access_token
CallbackAnswer ==
    /\ request.route = "google-callback" /\ pc = "list"
    /\ IF LastReply.json = <<>>
       THEN CallbackCatch(NotJson)
       ELSE IF ~LastReply.ok
       THEN CallbackCatch(OrDefault(LastReply.json[1].error,
                                    "Failed to fetch calendars"))
       ELSE Return(WithTokenCookie(Redirect("/", <<>>),
                                   upstream[1].reply[1].json[1].access_token))

\* ---- POST of the fetch-ics route (src/unnamed/part_000)

\* the URLs a request can carry: four that fetch can load, one of a scheme
\* it does not load and one that is no absolute URL (fetch rejects both)
FetchableUrls ==
    {"https://a/cal.ics", "http://b/cal.ics", "https://c/x?y=1", "https://d/"}
IcsUrls == FetchableUrls \cup {"webcal://e/cal.ics", "cal.ics"}

\* the requests: the body is no JSON (json |-> FALSE, request.json() throws)
\* or an object whose url is absent, empty or one of IcsUrls
IcsRequests ==
    [route : {"fetch-ics"}, json : {FALSE}, url : {<<>>}]
        \cup [route : {"fetch-ics"}, json : {TRUE},
              url : {<<>>, <<"">>} \cup {<<u>> : u \in IcsUrls}]

\* what the calendar's server answers: response.ok and the body that
\* response.text() reads (<<>> when reading it throws)
IcsReplies ==
    [ok : BOOLEAN,
     text : {<<>>, <<"">>, <<"BEGIN:VCALENDAR">>, <<"<html>">>, <<"Not Found">>,
             <<"{}">>}]

\* from the start to the first return or await: request.json(), the url
\* test with its 400, and fetch(url)
FetchIcsBegin ==
    /\ request.route = "fetch-ics" /\ pc = "start"
    /\ IF ~request.json
       THEN Return(ErrorResponse(500, "Failed to fetch ICS file"))
       ELSE IF request.url = <<>> \/ request.url = <<"">>
       THEN Return(ErrorResponse(400, "URL is required"))
       ELSE /\ upstream' = Append(upstream,
                   [to |-> request.url[1], reply |-> <<>>])
            /\ Suspend("fetch")

\* await fetch(url) resolves
FetchIcsFetched(reply) ==
    /\ request.route = "fetch-ics" /\ pc = "fetch"
    /\ request.url[1] \in FetchableUrls
    /\ upstream' = Replied(reply)
    /\ Suspend("text")

\* await fetch(url) rejects: catch, 500
FetchIcsFetchThrows ==
    /\ request.route = "fetch-ics" /\ pc = "fetch"
    /\ Return(ErrorResponse(500, "Failed to fetch ICS file"))

\* a handler that passed the body on whatever the status
FetchIcsAnswerUnchecked ==
    /\ request.route = "fetch-ics" /\ pc = "text"
    /\ IF LastReply.text = <<>>
       THEN Return(ErrorResponse(500, "Failed to fetch ICS file"))
       ELSE Return(JsonResponse([content |-> LastReply.text[1]]))

\* the ok test (a throw, caught), await response.text() (a throw when the
\* body cannot be read), and the answer { content }
FetchIcsAnswer ==
    /\ request.route = "fetch-ics" /\ pc = "text"
    /\ IF ~LastReply.ok \/ LastReply.text = <<>>
       THEN Return(ErrorResponse(500, "Failed to fetch ICS file"))
       ELSE Return(JsonResponse([content |-> LastReply.text[1]]))

-----------------------------------------------------------------------------
(* The specifications. *)

\* the component with every handler, given the texts of UiDocs
Next ==
    \/ Mount
    \/ \E newUrl \in Urls : handleUrlChange(newUrl)
    \/ ImportClick
    \/ \E text \in UiDocs : handleDrop(text)
    \/ \E text \in UiDocs : handleFileUpload(text)
    \/ \E k \in 1..MaxPending, text \in UiDocs : FetchOk(k, text)
    \/ \E k \in 1..MaxPending, message \in FetchErrors : FetchFails(k, message)
    \/ \E k \in 1..MaxPending : ReadDone(k)
    \/ \E k \in 1..MaxPending : ReadFails(k)
    \/ ClearClick
    \/ ExportCsvClick
    \/ CloseModalClick
    \/ ExportClick
    \/ PreviousMonthClick
    \/ NextMonthClick

Spec == Init /\ [][Next]_vars

\* one file of Docs is imported into the new component
ParseInit == Start({0}, {February}, {""}) /\ Idle

ParseNext ==
    \/ Mount
    \/ \E text \in Docs : content = <<>> /\ pending = <<>> /\ handleFileUpload(text)
    \/ \E k \in 1..MaxPending : ReadDone(k)

ParseSpec == ParseInit /\ [][ParseNext]_vars

\* one file of ExportDocs is imported and exported through the dialog, in
\* every time zone
ExportInit == Start(TzOffsets, {February}, {""}) /\ Idle

ExportNext ==
    \/ Mount
    \/ \E text \in ExportDocs :
           content = <<>> /\ pending = <<>> /\ handleFileUpload(text)
    \/ \E k \in 1..MaxPending : ReadDone(k)
    \/ ExportCsvClick
    \/ CloseModalClick
    \/ \E value \in ExportDates : setExportStartDate(value)
    \/ \E value \in ExportDates : setExportEndDate(value)
    \/ ExportClick

ExportSpec == ExportInit /\ [][ExportNext]_vars

\* the import handlers alone, handleUrlImport being called with any argument
\* in any state
ImportInit == Start({0}, {February}, Urls) /\ Idle

ImportNext ==
    \/ Mount
    \/ \E newUrl \in Urls : handleUrlChange(newUrl)
    \/ \E urlToFetch \in Urls : CallUrlImport(urlToFetch)
    \/ \E text \in UiDocs : handleDrop(text)
    \/ \E k \in 1..MaxPending, text \in UiDocs : FetchOk(k, text)
    \/ \E k \in 1..MaxPending, message \in FetchErrors : FetchFails(k, message)
    \/ \E k \in 1..MaxPending : ReadDone(k)
    \/ \E k \in 1..MaxPending : ReadFails(k)

ImportSpec == ImportInit /\ [][ImportNext]_vars

\* one request to the Google events route
EventsInit ==
    /\ Start({0}, {February}, {""})
    /\ request \in EventsRequests
    /\ pc = "start"
    /\ upstream = <<>>
    /\ response = <<>>

EventsNext ==
    \/ EventsBegin
    \/ \E reply \in Replies : EventsFetched(reply)
    \/ EventsFetchThrows
    \/ EventsAnswer

EventsSpec == EventsInit /\ [][EventsNext]_vars

\* one request to the OAuth callback
CallbackInit ==
    /\ Start({0}, {February}, {""})
    /\ request \in CallbackRequests
    /\ pc = "start"
    /\ upstream = <<>>
    /\ response = <<>>

CallbackNext ==
    \/ CallbackBegin
    \/ \E reply \in Replies : CallbackTokenFetched(reply)
    \/ CallbackFetchThrows
    \/ CallbackTokens
    \/ \E reply \in Replies : CallbackCalendarsFetched(reply)
    \/ CallbackAnswer

CallbackSpec == CallbackInit /\ [][CallbackNext]_vars

\* one request to the fetch-ics route
FetchIcsInit ==
    /\ Start({0}, {February}, {""})
    /\ request \in IcsRequests
    /\ pc = "start"
    /\ upstream = <<>>
    /\ response = <<>>

FetchIcsNext ==
    \/ FetchIcsBegin
    \/ \E reply \in IcsReplies : FetchIcsFetched(reply)
    \/ FetchIcsFetchThrows
    \/ FetchIcsAnswer

FetchIcsSpec == FetchIcsInit /\ [][FetchIcsNext]_vars

-----------------------------------------------------------------------------
(* Properties of the parser, under ParseSpec. *)

\* the value of the first line of a block body that begins with the keyword
\* (which holds its colon): <<>> when the body has no such line
LineValue(body, name) ==
    LET hits == {i \in 1..Len(body) : body[i] # <<>> /\ body[i][1] = name}
    IN  IF hits = {} THEN <<>>
        ELSE <<Tail(body[CHOOSE i \in hits : \A j \in hits : i <= j])>>

\* the token of the first NAME: or NAME;VALUE=DATE: line of a block body
DateLineValue(body, name) ==
    LET plain(l) == Len(l) >= 2 /\ l[1] = name /\ l[2] = ":"
        dated(l) == Len(l) >= 3 /\ l[1] = name /\ l[2] = ";VALUE=DATE" /\ l[3] = ":"
        hits     == {i \in 1..Len(body) : plain(body[i]) \/ dated(body[i])}
        first    == body[CHOOSE i \in hits : \A j \in hits : i <= j]
    IN  IF hits = {} THEN <<>>
        ELSE IF plain(first) THEN <<SubSeq(first, 3, Len(first))>>
        ELSE <<SubSeq(first, 4, Len(first))>>

\* the Events of the blocks of a text, each built from its own block
ExpectedEvents(text) ==
    LET bodies == BodiesOf(text)
    IN  [i \in 1..Len(bodies) |-> BuildEvent(Interior(bodies[i]))]

\* a text has been imported: events is what parseICS returned for content[1]
Parsed == content # <<>> /\ pending = <<>>

\* C1: for a text of N >= 0 well-formed blocks with other lines between
\* them, parseICS returns N Events, the i-th built from the i-th block; for
\* N = 0 it returns the empty sequence.
C1_OneEventPerBlockInOrder ==
    (Parsed /\ WellFormed(content[1])) =>
        /\ Len(events) =
               Cardinality({i \in 1..Len(LinesOf(content[1])) :
                               LinesOf(content[1])[i] = BeginLine})
        /\ events = ExpectedEvents(content[1])

\* two blocks with a line between them gave their two Events, in order
C1_Witness ==
    /\ Parsed
    /\ content[1] = Join(Block(<< <<"SUMMARY:", "a">> >>) \o << <<"X">> >>
                         \o Block(<< <<"SUMMARY:", "b">>, <<"LOCATION:", "h">> >>))
    /\ Len(events) = 2
    /\ events[1].summary = <<"a">>
    /\ events[2].summary = <<"b">>

\* a text whose only flaw is a BEGIN:VEVENT line that no END:VEVENT closes
HasMalformedBlock(text) ==
    LET lines == LinesOf(text)
    IN  /\ MarkersOnOwnLines(lines)
        /\ StrayEnds(lines) = {}
        /\ UnclosedBegins(lines) # {}

\* C2: a block that has BEGIN:VEVENT but no END:VEVENT of its own yields no
\* Event and gives no field to any Event, wherever it stands; the
\* well-formed blocks each yield their own Event.
C2_MalformedBlockSkipped ==
    (Parsed /\ HasMalformedBlock(content[1])) =>
        events = ExpectedEvents(content[1])

\* a date token: YYYYMMDD, or YYYYMMDDTHHMMSS with any suffix
IsDateToken(t) ==
    /\ Len(t) = 8 \/ (Len(t) >= 15 /\ t[9] = "T")
    /\ \A i \in (1..Len(t)) \ {9} : i <= 15 => IsDigit(t[i])

\* the display string of a date token, character by character
DisplayOf(t) ==
    IF Len(t) = 8
    THEN <<t[1], t[2], t[3], t[4], "-", t[5], t[6], "-", t[7], t[8]>>
    ELSE <<t[1], t[2], t[3], t[4], "-", t[5], t[6], "-", t[7], t[8], " ",
           t[10], t[11], ":", t[12], t[13]>>

\* C3: an 8-character token YYYYMMDD becomes YYYY-MM-DD, a longer token
\* YYYYMMDDTHHMMSS[Z] becomes YYYY-MM-DD HH:MM, the T and the suffix ignored
\* (20240315 gives 2024-03-15, 20240315T143000Z gives 2024-03-15 14:30), for
\* start and for end alike.
C3_DateNormalization ==
    (Parsed /\ WellFormed(content[1])) =>
        \A i \in 1..Len(events) :
            LET body == BodiesOf(content[1])[i]
                from == DateLineValue(body, "DTSTART")
                to   == DateLineValue(body, "DTEND")
            IN  /\ (from # <<>> /\ IsDateToken(from[1])) =>
                       events[i].start = DisplayOf(from[1])
                /\ (to # <<>> /\ IsDateToken(to[1])) =>
                       events[i].end = DisplayOf(to[1])
                /\ from = <<Token8>> =>
                       events[i].start =
                           <<"2", "0", "2", "4", "-", "0", "3", "-", "1", "5">>
                /\ from = <<TokenTZ>> =>
                       events[i].start =
                           <<"2", "0", "2", "4", "-", "0", "3", "-", "1", "5",
                             " ", "1", "4", ":", "3", "0">>

\* a block with DTSTART:20240315T143000Z and DTEND;VALUE=DATE:20240316
C3_Witness ==
    /\ Parsed
    /\ content[1] = Join(Block(<< <<"DTSTART", ":">> \o TokenTZ,
                                  <<"DTEND", ";VALUE=DATE", ":">> \o Token8b >>))
    /\ Len(events) = 1
    /\ events[1].start = <<"2", "0", "2", "4", "-", "0", "3", "-", "1", "5",
                           " ", "1", "4", ":", "3", "0">>
    /\ events[1].end = <<"2", "0", "2", "4", "-", "0", "3", "-", "1", "6">>

\* C4: each of summary, start, end, description and location comes from the
\* block's own property line of that name and keeps its default when the
\* block has no such line, whatever the values of the other lines hold; a
\* block without a LOCATION line yields an Event without location.
C4_FieldsFromOwnLines ==
    (Parsed /\ WellFormed(content[1])) =>
        \A i \in 1..Len(events) :
            LET body == BodiesOf(content[1])[i]
                from == DateLineValue(body, "DTSTART")
                to   == DateLineValue(body, "DTEND")
            IN  /\ events[i].summary = OrEmpty(LineValue(body, "SUMMARY:"))
                /\ events[i].description = LineValue(body, "DESCRIPTION:")
                /\ events[i].location = LineValue(body, "LOCATION:")
                /\ events[i].start =
                       (IF from = <<>> THEN <<>> ELSE formatStart(from[1]))
                /\ events[i].end =
                       (IF to = <<>> THEN <<>> ELSE formatEnd(to[1]))

-----------------------------------------------------------------------------
(* Properties of the month view, under Spec. *)

\* the number of buckets of the event list
BucketCount == Len(sortedMonths(events))

\* C5: with B >= 1 buckets, Next Month shows the bucket one position later
\* until the last, Previous Month the bucket one position earlier until the
\* first, and at either end the click changes nothing.
C5_PagingMovesShownBucket ==
    [][/\ NextMonthClick =>
              shownMonthIndex(events') =
                  Min(BucketCount - 1, shownMonthIndex(events) + 1)
       /\ PreviousMonthClick =>
              shownMonthIndex(events') = Max(0, shownMonthIndex(events) - 1)]_vars

\* the year and month a start string writes: YYYY-MM
YearMonthOf(event) == SubSeq(event.start, 1, 7)

\* the months from year 0 to the month a key YYYY-MM names
MonthNumber(key) == ToInt(SubSeq(key, 1, 4)) * 12 + ToInt(SubSeq(key, 6, 7))

\* C6: grouping partitions the events by the year-month of their start: an
\* event lies in the bucket of its year-month and in no other, two events
\* share a bucket exactly when year and month agree, a bucket keeps the
\* list's order, and the buckets are in ascending year-month order.
C6_GroupingByYearMonth ==
    (Len(events) > 0 /\ \A i \in 1..Len(events) : IsDateShape(events[i].start)) =>
        LET g      == groupedEvents(events)
            months == sortedMonths(events)
        IN  /\ \A i, j \in 1..Len(events) :
                   (monthKeyOf(events[i]) = monthKeyOf(events[j]))
                       <=> (YearMonthOf(events[i]) = YearMonthOf(events[j]))
            /\ \A key \in DOMAIN g :
                   g[key] = SelectSeq(events, LAMBDA e : YearMonthOf(e) = key)
            /\ Len(months) =
                   Cardinality({YearMonthOf(events[i]) : i \in 1..Len(events)})
            /\ \A i \in 1..(Len(months) - 1) :
                   MonthNumber(months[i]) < MonthNumber(months[i + 1])

\* C7: a non-empty event list is shown at the bucket of today's year-month
\* when there is one, and at the first, earliest bucket otherwise.
C7_ShownBucketIsTodaysOrFirst ==
    Len(events) > 0 =>
        LET months == sortedMonths(events)
            todays == NumStr(today.year) \o <<"-">> \o Pad2(today.month)
        IN  IF \E i \in 1..Len(months) : months[i] = todays
            THEN monthKey(events) = todays
            ELSE /\ monthKey(events) = months[1]
                 /\ \A i \in 1..Len(months) : ~StrLess(months[i], monthKey(events))

\* three buckets, today's the second one, and it is the one shown
C7_Witness ==
    /\ Len(events) > 0
    /\ BucketCount = 3
    /\ sortedMonths(events)[2] = currentMonthKey
    /\ monthKey(events) = currentMonthKey
    /\ currentMonthIndex = 0

-----------------------------------------------------------------------------
(* Properties of the CSV export, under ExportSpec. *)

\* the rows of a CSV text: the pieces between its newlines
RowsOf(text) == SplitAt(text, {i \in 1..Len(text) : text[i] = "\n"})

\* the quoted fields of a CSV row: the pieces between the commas that stand
\* outside quotes, those with an even number of quotes before them
RawFields(row) ==
    SplitAt(row, {i \in 1..Len(row) :
                     /\ row[i] = ","
                     /\ Cardinality({j \in 1..(i - 1) : row[j] = "\""}) % 2 = 0})

\* the text whose quotes, each written twice, are made single again; <<"?">>
\* marks a quote that stands alone
RECURSIVE UnDouble(_)
UnDouble(s) ==
    IF s = <<>> THEN <<>>
    ELSE IF Head(s) # "\"" THEN <<Head(s)>> \o UnDouble(Tail(s))
    ELSE IF Len(s) >= 2 /\ s[2] = "\"" THEN <<"\"">> \o UnDouble(SubSeq(s, 3, Len(s)))
    ELSE <<"?">>

\* a CSV reader (RFC 4180) for one row of quoted fields: each field with its
\* outer quotes removed and its doubled quotes made single, <<"?">> for a
\* field that is not wrapped in quotes
ReadRow(row) ==
    LET raw == RawFields(row)
    IN  [k \in 1..Len(raw) |->
            IF Len(raw[k]) >= 2 /\ raw[k][1] = "\"" /\ raw[k][Len(raw[k])] = "\""
            THEN UnDouble(SubSeq(raw[k], 2, Len(raw[k]) - 1))
            ELSE <<"?">>]

\* the range in the name of a download, calendar-events-<from>-to-<to>.csv,
\* both dates being YYYY-MM-DD
FromOfName(name) == SubSeq(name, 2, 11)
ToOfName(name) == SubSeq(name, 13, 22)

\* the events exported by the last export, from the list it was given
Exported ==
    filteredEvents(events, FromOfName(download[1].name), ToOfName(download[1].name))

\* the day of the start of an event lies in the range of days
StartsWithin(event, from, to) ==
    /\ IsDateShape(event.start)
    /\ DayNumberOf(from) <= DayNumberOf(event.start)
    /\ DayNumberOf(event.start) <= DayNumberOf(to)

\* C8: the export selects exactly the events whose start day d satisfies
\* startDate <= d <= endDate, both ends included, be the start an all-day
\* date or a date with a time, and keeps their order.
C8_ExportSelectsInclusiveRange ==
    download # <<>> =>
        download[1].text =
            csvText(SelectSeq(events,
                LAMBDA e : StartsWithin(e, FromOfName(download[1].name),
                                        ToOfName(download[1].name))))

\* C9: for M selected events the CSV has M+1 rows joined by newlines: the
\* header row, then a row of five comma-joined fields per event in order,
\* each field in double quotes with its own quotes doubled, the first the
\* summary, an absent location or description an empty quoted field.
C9_CsvRowsQuoted ==
    download # <<>> =>
        LET rows == RowsOf(download[1].text)
        IN  /\ Len(rows) = Len(Exported) + 1
            /\ rows[1] = <<"Summary", ",", "Start Date", ",", "End Date", ",",
                           "Location", ",", "Description">>
            /\ \A i \in 1..Len(Exported) :
                   LET e == Exported[i]
                   IN  ReadRow(rows[i + 1]) =
                           << e.summary,
                              toLocaleString(NewDate(e.start)),
                              toLocaleString(NewDate(e.end)),
                              IF e.location = <<>> THEN <<>> ELSE e.location[1],
                              IF e.description = <<>> THEN <<>>
                              ELSE e.description[1] >>

\* an export of two events: one whose summary holds quotes and that has no
\* location, one with a location
C9_Witness ==
    /\ download # <<>>
    /\ Len(Exported) = 2
    /\ Exported[1].summary = <<"\"", "q", "\"">>
    /\ Exported[1].location = <<>>
    /\ Exported[2].location # <<>>

-----------------------------------------------------------------------------
(* Properties of the event list, under Spec. *)

\* C10: a successful import replaces the event list by the parse result of
\* the imported text, keeping nothing of the list before; no other action
\* changes the list, except Clear, which empties it.
C10_ImportReplacesWholesale ==
    [][\/ events' = events
       \/ ClearClick /\ events' = <<>>
       \/ /\ Len(pending') = Len(pending) - 1
          /\ content' # <<>>
          /\ events' = parseICS(content'[1])]_vars

\* the list of the one-bucket text has replaced a list of three buckets,
\* which had been paged to its last bucket
C10_Witness ==
    /\ content = <<DocMarch>>
    /\ events = parseICS(DocMarch)
    /\ currentMonthIndex = 2
    /\ download # <<>>

-----------------------------------------------------------------------------
(* Properties of the imports, under Spec. *)

\* C11: at most one import is awaiting its fetch or file read at any time:
\* while one is pending, no trigger (Import click, the saved-URL effect, a
\* file drop, a file selection) starts a second one.
C11_AtMostOnePendingImport == Len(pending) <= 1

\* C12: a failed import (the fetch answers not ok or throws, the file read
\* throws) leaves the event list as it was, sets a non-empty error message,
\* clears loading and sends nothing again; handleUrlImport with no URL to
\* use sets the error message and changes neither events nor loading.
C12_FailedImportAffectsOnlyItself ==
    [][/\ \A k \in 1..MaxPending :
              ((\E message \in FetchErrors : FetchFails(k, message))
                   \/ ReadFails(k))
                  => /\ events' = events
                     /\ error' # ""
                     /\ loading' = FALSE
                     /\ pending' = RemoveAt(pending, k)
       /\ (url = "" /\ CallUrlImport(""))
              => /\ error' = "Please enter a calendar URL"
                 /\ events' = events
                 /\ loading' = loading
                 /\ pending' = pending]_vars

\* a fetch has failed after an earlier import had filled the list: the
\* message is shown and the list is still there
C12_Witness ==
    /\ error = "Failed to fetch ICS file"
    /\ events = parseICS(DocMarch)
    /\ ~loading
    /\ pending = <<>>

\* C14: whenever the event list has B >= 1 buckets, the state
\* currentMonthIndex lies in 0 .. B-1, also after paging forward and then
\* importing a calendar with fewer buckets.
C14_MonthIndexInRange ==
    Len(events) > 0 => currentMonthIndex \in 0..(BucketCount - 1)

\* C15: each trigger starts at most one import: loading the page with a
\* saved calendar_url cookie starts exactly one, a click on Import one, a
\* file drop or selection one, and an edit of the URL field none.
C15_OneImportPerTrigger ==
    [][/\ Mount =>
              Len(pending') = Len(pending) + (IF cookie = "" THEN 0 ELSE 1)
       /\ ImportClick => Len(pending') = Len(pending) + 1
       /\ (\E text \in UiDocs : FileChosen(text)) =>
              Len(pending') = Len(pending) + 1
       /\ (\E newUrl \in Urls : handleUrlChange(newUrl)) =>
              pending' = pending]_vars

\* C16: overlapping imports are applied in the order they complete: the
\* event list is the parse result of the import that completed last,
\* whichever was begun first, so an import begun earlier that completes
\* later overwrites the result of the one begun after it.
C16_LastCompletionWins ==
    content # <<>> => events = parseICS(content[1])

\* two imports overlapped, the one begun first completed last, and the list
\* is its parse result
C16_Witness ==
    /\ overtaken
    /\ pending = <<>>
    /\ content = <<DocThreeMonths>>
    /\ events = parseICS(DocThreeMonths)

\* C17: loading is true whenever an import is awaiting its fetch or file
\* read, and false once none is.
C17_LoadingTracksPending ==
    mounted => (loading <=> pending # <<>>)

\* the cells of the calendar body that hold an event
CellsOf(event) ==
    {c \in 1..Len(days(events)) :
        \E k \in 1..Len(days(events)[c].events) :
            days(events)[c].events[k] = event}

\* C20: the calendar body lays out the days of the year-month of the bucket
\* shown in the header, and each event of that bucket is in exactly one
\* cell, the one of the day of the month of its start; also when today's
\* year-month is not among the buckets.
C20_GridAgreesWithBucket ==
    (Len(events) > 0 /\ \A i \in 1..Len(events) : NewDate(events[i].start).valid) =>
        /\ gridKey = monthKey(events)
        /\ \A i \in 1..Len(monthEvents(events)) :
               LET event == monthEvents(events)[i]
               IN  /\ Cardinality(CellsOf(event)) = 1
                   /\ \A c \in CellsOf(event) :
                          days(events)[c].day = getDate(NewDate(event.start))

-----------------------------------------------------------------------------
(* Properties of the route handlers. *)

\* C13: the Google events route sends nothing to Google without the
\* google_access_token cookie: it answers 401 "Not authenticated"; with the
\* cookie it sends exactly one request, bearing that token, and answers
\* with the events when Google's reply is ok and with a 500 error when the
\* request fails.
C13_NoTokenNoUpstreamRequest ==
    /\ Len(upstream) <= 1
    /\ request.token = <<>> =>
           /\ upstream = <<>>
           /\ pc = "done" => response = <<ErrorResponse(401, "Not authenticated")>>
    /\ (request.token # <<>> /\ pc # "start") =>
           /\ Len(upstream) = 1
           /\ upstream[1].bearer = request.token
    /\ (request.token # <<>> /\ pc = "done") =>
           IF upstream[1].reply # <<>> /\ LastReply.ok /\ LastReply.json # <<>>
           THEN response = <<JsonResponse(LastReply.json[1])>>
           ELSE /\ response[1].status = 500
                /\ response[1].error # <<>> /\ response[1].error # <<"">>
                /\ response[1].body = <<>>

\* a request without the cookie has been answered
C13_Witness ==
    /\ request.route = "google-events"
    /\ request.token = <<>>
    /\ pc = "done"
    /\ response[1].status = 401

\* the reply to the n-th request of the handler was ok and JSON
Succeeded(n) ==
    /\ Len(upstream) >= n
    /\ upstream[n].reply # <<>>
    /\ upstream[n].reply[1].ok
    /\ upstream[n].reply[1].json # <<>>

\* C18: the OAuth callback sets the google_access_token cookie only after
\* the token exchange and then the calendar list request have succeeded,
\* and then redirects to /; without a code it redirects to /?error=no_code
\* and sends nothing; after a failed token exchange it redirects to
\* /?error=<message> without asking for the calendar list; no failure path
\* sets a cookie.
C18_CookieOnlyAfterBothSucceed ==
    /\ Len(upstream) >= 1 => upstream[1].to = "oauth2.googleapis.com/token"
    /\ Len(upstream) >= 2 =>
           /\ Succeeded(1)
           /\ upstream[2].to = "calendar/v3/users/me/calendarList"
    /\ Len(upstream) <= 2
    /\ (request.code = <<>> \/ request.code = <<"">>) =>
           /\ upstream = <<>>
           /\ pc = "done" => response = <<Redirect("/", <<"no_code">>)>>
    /\ (pc = "done" /\ Len(upstream) >= 1 /\ ~Succeeded(1)) =>
           /\ Len(upstream) = 1
           /\ response[1].path = "/"
           /\ response[1].error # <<>> /\ response[1].error # <<"">>
    /\ pc = "done" =>
           IF Succeeded(1) /\ Succeeded(2)
           THEN /\ response[1].path = "/" /\ response[1].error = <<>>
                /\ response[1].cookie # <<>>
                /\ response[1].cookie[1].name = "google_access_token"
                /\ response[1].cookie[1].value =
                       upstream[1].reply[1].json[1].access_token
           ELSE /\ response[1].cookie = <<>>
                /\ response[1].error # <<>>

\* both requests succeeded and the redirect to / carries the cookie
C18_Witness ==
    /\ request.route = "google-callback"
    /\ pc = "done"
    /\ Succeeded(1) /\ Succeeded(2)
    /\ response[1].cookie # <<>>
    /\ response[1].cookie[1].value = <<"ya29">>

\* the request's body is an object with a url that is not empty
CarriesUrl == request.json /\ request.url # <<>> /\ request.url # <<"">>

=============================================================================
